---- MODULE Spec2Model ----
(***************************************************************************)
(* Packaging line discrete-event simulation (src/main.py):                 *)
(*   CaseFormer -> Separator -> B1 -> B2 -> B3 -> B4 -> Glue/Date ->       *)
(*   Palletizer, with bounded buffers between neighbours, break/downtime   *)
(*   pauses that retime queued completions, and the pallet lock.           *)
(*                                                                         *)
(* Time is a Python float in the program.  Here it is an integer number of *)
(* ticks, TicksPerSec ticks to the second, so that durations such as 2.5 s *)
(* and the truncation int(now) of the records are both represented.        *)
(***************************************************************************)
EXTENDS Integers, Sequences, FiniteSets

VARIABLES
    cfg,                \* the configuration dictionary handed to Sim(cfg)
    windows,            \* self.windows
    run_start,          \* self.run_start
    shift_end,          \* self.shift_end
    now,                \* self.now
    buf,                \* self.buf, indices 0..6
    busy,               \* ServerPool.busy of each station
    h,                  \* self.h, the event heap, in the order heappop empties it
    cases_out,          \* self.cases_out
    pallets,            \* self.pallets
    events,             \* self.events: (pallet_seq, time_sec)
    log,                \* self.log: the pause log
    lock_active,        \* self.lock_active
    lock_target_cases,  \* self.lock_target_cases
    pc,                 \* "run" inside the while loop of run(), "done" after it
    last,               \* the event the loop processed last (None before the first)
    formed              \* number of units CaseFormer has started forming

vars == <<cfg, windows, run_start, shift_end, now, buf, busy, h, cases_out,
          pallets, events, log, lock_active, lock_target_cases, pc, last, formed>>

-----------------------------------------------------------------------------
(* Bounds of the model *)

\* resolution of the clock: ticks per second
TicksPerSec == 2

\* exploration stops once the heap holds more events than this
MaxQueue == 40

-----------------------------------------------------------------------------
(* Python values *)

None == <<>>

Some(x) == <<x>>

Max(a, b) == IF a >= b THEN a ELSE b

\* int(t) of a time: whole seconds, truncated
int(t) == t \div TicksPerSec

\* the characters of the strings the program compares, as code points
Chars(s) ==
    CASE s = "done_B1"     -> <<100, 111, 110, 101, 95, 66, 49>>
      [] s = "done_B2"     -> <<100, 111, 110, 101, 95, 66, 50>>
      [] s = "done_B3"     -> <<100, 111, 110, 101, 95, 66, 51>>
      [] s = "done_B4"     -> <<100, 111, 110, 101, 95, 66, 52>>
      [] s = "done_CF"     -> <<100, 111, 110, 101, 95, 67, 70>>
      [] s = "done_GLUE"   -> <<100, 111, 110, 101, 95, 71, 76, 85, 69>>
      [] s = "done_PAL"    -> <<100, 111, 110, 101, 95, 80, 65, 76>>
      [] s = "done_SEP"    -> <<100, 111, 110, 101, 95, 83, 69, 80>>
      [] s = "pause_end"   -> <<112, 97, 117, 115, 101, 95, 101, 110, 100>>
      [] s = "pause_start" -> <<112, 97, 117, 115, 101, 95, 115, 116, 97, 114, 116>>
      [] s = "try_B1"      -> <<116, 114, 121, 95, 66, 49>>
      [] s = "try_B2"      -> <<116, 114, 121, 95, 66, 50>>
      [] s = "try_B3"      -> <<116, 114, 121, 95, 66, 51>>
      [] s = "try_B4"      -> <<116, 114, 121, 95, 66, 52>>
      [] s = "try_CF"      -> <<116, 114, 121, 95, 67, 70>>
      [] s = "try_GLUE"    -> <<116, 114, 121, 95, 71, 76, 85, 69>>
      [] s = "try_PAL"     -> <<116, 114, 121, 95, 80, 65, 76>>
      [] s = "try_SEP"     -> <<116, 114, 121, 95, 83, 69, 80>>
      [] s = "done_"       -> <<100, 111, 110, 101, 95>>
      [] s = "try_"        -> <<116, 114, 121, 95>>
      [] s = "BREAK"       -> <<66, 82, 69, 65, 75>>
      [] s = "DOWNTIME"    -> <<68, 79, 87, 78, 84, 73, 77, 69>>

\* Python's < on sequences of comparable items (str, tuple of numbers)
RECURSIVE SeqLess(_, _)
SeqLess(a, b) ==
    IF Len(b) = 0 THEN FALSE
    ELSE IF Len(a) = 0 THEN TRUE
    ELSE IF Head(a) < Head(b) THEN TRUE
    ELSE IF Head(a) > Head(b) THEN FALSE
    ELSE SeqLess(Tail(a), Tail(b))

StrLess(s1, s2) == SeqLess(Chars(s1), Chars(s2))

\* typ.startswith(prefix)
startswith(typ, prefix) ==
    /\ Len(Chars(typ)) >= Len(Chars(prefix))
    /\ SubSeq(Chars(typ), 1, Len(Chars(prefix))) = Chars(prefix)

\* f"try_{name}" and f"done_{name}"
try_(name) ==
    CASE name = "CF" -> "try_CF" [] name = "SEP" -> "try_SEP"
      [] name = "B1" -> "try_B1" [] name = "B2" -> "try_B2"
      [] name = "B3" -> "try_B3" [] name = "B4" -> "try_B4"
      [] name = "GLUE" -> "try_GLUE" [] name = "PAL" -> "try_PAL"

done_(name) ==
    CASE name = "CF" -> "done_CF" [] name = "SEP" -> "done_SEP"
      [] name = "B1" -> "done_B1" [] name = "B2" -> "done_B2"
      [] name = "B3" -> "done_B3" [] name = "B4" -> "done_B4"
      [] name = "GLUE" -> "done_GLUE" [] name = "PAL" -> "done_PAL"

\* f"{label}_START" and f"{label}_END"
label_START(label) == IF label = "BREAK" THEN "BREAK_START" ELSE "DOWNTIME_START"

label_END(label) == IF label = "BREAK" THEN "BREAK_END" ELSE "DOWNTIME_END"

-----------------------------------------------------------------------------
(* The heap of (time, typ, payload) tuples *)

\* payloads of two events of the same time and typ: None against None, or
\* (label, start, end) against (label, start, end)
PayloadLess(p, q) ==
    IF p = None \/ q = None THEN FALSE
    ELSE \/ StrLess(p[1], q[1])
         \/ p[1] = q[1] /\ p[2] < q[2]
         \/ p[1] = q[1] /\ p[2] = q[2] /\ p[3] < q[3]

\* a comparison of the times alone: events of one time leave in the order they came
TupleLess_time_only(e1, e2) == e1[1] < e2[1]

\* Python's tuple comparison e1 < e2, which heapq orders the events by
TupleLess(e1, e2) ==
    \/ e1[1] < e2[1]
    \/ e1[1] = e2[1] /\ StrLess(e1[2], e2[2])
    \/ e1[1] = e2[1] /\ e1[2] = e2[2] /\ PayloadLess(e1[3], e2[3])

\* self.h is held as the sequence in which heappop returns its events: the
\* least tuple first.  heappush puts the event behind the events not above it.
Insert(q, e) ==
    LET k == Cardinality({j \in 1..Len(q) : ~TupleLess(e, q[j])})
    IN  SubSeq(q, 1, k) \o <<e>> \o SubSeq(q, k + 1, Len(q))

\* (the binding makes TLC evaluate the heap once, not once for each use)
heappush(hp, e) == CHOOSE r \in {Insert(q, e) : q \in {hp}} : TRUE

\* the event heappop returns, and the heap it leaves
HeapTop(hp) == Head(hp)

HeapRest(hp) == Tail(hp)

-----------------------------------------------------------------------------
(* Configuration *)

\* to_sec(h, m), in ticks
to_sec(hh, mm) == (hh * 3600 + mm * 60) * TicksPerSec

\* one break of windows_from_shift cut out of the intervals found so far
RECURSIVE CutBreak(_, _, _)
CutBreak(intervals, bs, be) ==
    IF intervals = <<>> THEN <<>>
    ELSE LET a == Head(intervals)[1]
             b == Head(intervals)[2]
             kept == IF be <= a \/ bs >= b THEN <<(<<a, b>>)>>
                     ELSE (IF a < bs THEN <<(<<a, bs>>)>> ELSE <<>>)
                          \o (IF be < b THEN <<(<<be, b>>)>> ELSE <<>>)
         IN  kept \o CutBreak(Tail(intervals), bs, be)

RECURSIVE CutBreaks(_, _)
CutBreaks(intervals, breaks) ==
    IF breaks = <<>> THEN intervals
    ELSE LET k == Head(breaks)
         IN  CutBreaks(CutBreak(intervals, to_sec(k[1], k[2]), to_sec(k[3], k[4])),
                       Tail(breaks))

\* windows_from_shift(cfg): (intervals, run_start, e)
windows_from_shift(c) ==
    LET s == to_sec(c.start_hm[1], c.start_hm[2])
        e == to_sec(c.end_hm[1], c.end_hm[2])
        rs == s + c.prep_min * 60 * TicksPerSec
        re == e - c.clean_last_min * 60 * TicksPerSec
    IN  <<CutBreaks(<<(<<rs, re>>)>>, c.breaks), rs, e>>

\* a variant of in_window whose windows are closed at their end
in_window_closed(t, ws) == \E i \in 1..Len(ws) : ws[i][1] <= t /\ t <= ws[i][2]

in_window(t, ws) == \E i \in 1..Len(ws) : ws[i][1] <= t /\ t < ws[i][2]

\* the station names, in the order Sim.__init__ and _end_pause push their tries
Names == <<"CF", "SEP", "B1", "B2", "B3", "B4", "GLUE", "PAL">>

Stations == {Names[i] : i \in 1..Len(Names)}

\* ServerPool(name, 1): every station has a single server
Servers == 1

servers(name) == Servers

\* the links: 0=CF->Sep, 1=Sep->B1, 2=B1->B2, 3=B2->B3, 4=B3->B4, 5=B4->Glue, 6=Glue->Pallet
Links == 0..6

bufcap == cfg.buffers

\* a configuration dictionary; the durations are in ticks, jitter_pct in percent
Cfg(prep, endm, clean, brk, down, cpp, tcf, tsep, brange, tglue, pdist, ppar, bufs, jit) ==
    [start_hm |-> <<0, 0>>, end_hm |-> <<0, endm>>, prep_min |-> prep,
     clean_last_min |-> clean, breaks |-> brk, downtimes |-> down,
     cases_per_pallet |-> cpp, t_caseformer |-> tcf, t_separator |-> tsep,
     bottler_range |-> brange, t_glue |-> tglue, palletizer_dist |-> pdist,
     palletizer_params |-> ppar, buffers |-> bufs, jitter_pct |-> jit]

\* the buffer capacities of CONFIG, and a line with one place per link
DefaultBuffers == [i \in Links |-> <<32, 32, 6, 6, 6, 16, 64>>[i + 1]]

TightBuffers == [i \in Links |-> 1]

\* a duration of k half seconds, in ticks
HalfSecs(k) == (k * TicksPerSec) \div 2

\* break and downtime intervals (h1, m1, h2, m2)
Span(m1, m2) == <<0, m1, 0, m2>>

\* every station takes one second, nothing pauses the line
UnitCfg ==
    Cfg(0, 2, 1, <<>>, <<>>, 20, HalfSecs(2), HalfSecs(2), <<HalfSecs(2), HalfSecs(2)>>,
        HalfSecs(2), "uniform", <<HalfSecs(2), HalfSecs(2)>>, DefaultBuffers, 0)

\* every station takes no time at all
ZeroCfg ==
    Cfg(0, 1, 0, <<>>, <<>>, 2, 0, 0, <<0, 0>>, 0, "uniform", <<0, 0>>, TightBuffers, 0)

\* a case every 15 s, bottlers of 5 s, a palletizer of 5 to 25 s
Line(prep, endm, clean, brk, down, cpp, bufs) ==
    Cfg(prep, endm, clean, brk, down, cpp, HalfSecs(30), 0, <<HalfSecs(10), HalfSecs(10)>>,
        HalfSecs(5), "uniform", <<HalfSecs(10), HalfSecs(50)>>, bufs, 0)

\* a break inside the shift, the line blocking on its one-place buffers
BreakCfg == Line(0, 3, 0, <<Span(1, 2)>>, <<>>, 2, TightBuffers)

\* a break and a downtime that overlap, and a break across the end of the shift
OverlapCfg == Line(0, 4, 1, <<Span(1, 2), Span(3, 5)>>, <<Span(1, 3)>>, 3, DefaultBuffers)

\* a break that starts before production does
EarlyCfg == Line(1, 3, 0, <<Span(0, 2)>>, <<>>, 2, DefaultBuffers)

\* a break next to a downtime
AdjacentCfg == Line(0, 4, 0, <<Span(1, 2)>>, <<Span(2, 3)>>, 3, DefaultBuffers)

\* a break whose end comes before its start, and a downtime of no length
OddCfg == Line(0, 2, 0, <<Span(2, 1)>>, <<Span(1, 1)>>, 2, TightBuffers)

\* bottlers of 0 to 10 s under a downtime, and the triangular palletizer
BottlerCfg ==
    Cfg(0, 2, 0, <<>>, <<Span(1, 2)>>, 2, HalfSecs(50), 0, <<0, HalfSecs(20)>>,
        HalfSecs(5), "tri", <<HalfSecs(20), HalfSecs(20), HalfSecs(20)>>, DefaultBuffers, 0)

\* ten percent of jitter on every duration
JitterCfg ==
    Cfg(0, 1, 0, <<>>, <<>>, 2, HalfSecs(40), HalfSecs(20), <<HalfSecs(20), HalfSecs(20)>>,
        0, "uniform", <<HalfSecs(20), HalfSecs(20)>>, TightBuffers, 10)

\* every duration positive, and a downtime that a break follows at once
PositiveCfg ==
    Cfg(0, 4, 0, <<Span(2, 3)>>, <<Span(1, 2)>>, 2, HalfSecs(30), HalfSecs(2),
        <<HalfSecs(10), HalfSecs(10)>>, HalfSecs(5), "uniform",
        <<HalfSecs(20), HalfSecs(40)>>, TightBuffers, 0)

\* every duration positive, and a break that ends after production was to start
WakeCfg ==
    Cfg(1, 3, 0, <<Span(0, 2)>>, <<>>, 2, HalfSecs(30), HalfSecs(2),
        <<HalfSecs(10), HalfSecs(10)>>, HalfSecs(5), "uniform",
        <<HalfSecs(20), HalfSecs(40)>>, TightBuffers, 0)

Configs ==
    {UnitCfg, ZeroCfg, BreakCfg, OverlapCfg, EarlyCfg, AdjacentCfg, OddCfg, BottlerCfg,
     JitterCfg, PositiveCfg, WakeCfg}

-----------------------------------------------------------------------------
(* Durations *)

\* the values random.uniform(lo, hi) is taken to return: both ends and the middle
uniform(lo, hi) == {lo, (lo + hi) \div 2, hi}

\* the values tri(a, m, b) is taken to return
tri(a, m, b) == {a, m, b}

\* jitter(x, pct): x itself without jitter, else x scaled by 1 -+ pct and
\* kept positive (the program's floor of 0.001 s is one tick here)
jitter(x, pct) ==
    IF pct <= 0 THEN {x}
    ELSE {Max(1, (x * (100 - pct)) \div 100), Max(1, x), Max(1, (x * (100 + pct)) \div 100)}

t_cf == jitter(cfg.t_caseformer, cfg.jitter_pct)

t_sep == jitter(cfg.t_separator, cfg.jitter_pct)

t_b ==
    UNION {jitter(d, cfg.jitter_pct) :
              d \in uniform(cfg.bottler_range[1], cfg.bottler_range[2])}

t_glue == jitter(cfg.t_glue, cfg.jitter_pct)

t_pal ==
    IF cfg.palletizer_dist = "tri"
    THEN UNION {jitter(d, cfg.jitter_pct) :
                   d \in tri(cfg.palletizer_params[1], cfg.palletizer_params[2],
                             cfg.palletizer_params[3])}
    ELSE UNION {jitter(d, cfg.jitter_pct) :
                   d \in uniform(cfg.palletizer_params[1], cfg.palletizer_params[2])}

-----------------------------------------------------------------------------
(* Sim.__init__ *)

RECURSIVE PushTries(_, _, _)
PushTries(hp, t, names) ==
    IF names = <<>> THEN hp
    ELSE PushTries(heappush(hp, <<t, try_(Head(names)), None>>), t, Tail(names))

RECURSIVE PushPauses(_, _, _)
PushPauses(hp, label, pauses) ==
    IF pauses = <<>> THEN hp
    ELSE LET k == Head(pauses)
             ps == to_sec(k[1], k[2])
             pe == to_sec(k[3], k[4])
             h1 == heappush(hp, <<ps, "pause_start", <<label, ps, pe>>>>)
             h2 == heappush(h1, <<pe, "pause_end", <<label, ps, pe>>>>)
         IN  PushPauses(h2, label, Tail(pauses))

Init ==
    /\ cfg \in Configs
    /\ windows = windows_from_shift(cfg)[1]
    /\ run_start = windows_from_shift(cfg)[2]
    /\ shift_end = windows_from_shift(cfg)[3]
    /\ now = windows_from_shift(cfg)[2]
    /\ buf = [i \in Links |-> 0]
    /\ busy = [s \in Stations |-> 0]
    /\ h = PushPauses(PushPauses(PushTries(<<>>, windows_from_shift(cfg)[2], Names),
                                 "BREAK", cfg.breaks),
                      "DOWNTIME", cfg.downtimes)
    /\ cases_out = 0
    /\ pallets = 0
    /\ events = <<>>
    /\ log = <<>>
    /\ lock_active = FALSE
    /\ lock_target_cases = None
    /\ pc = "run"
    /\ last = None
    /\ formed = 0

-----------------------------------------------------------------------------
(* The handlers.  Each is run by the loop of run() after it has popped the  *)
(* event and set self.now to its time: now' is self.now inside the handler, *)
(* and hq is the heap the pop has left.                                     *)

can_run == in_window(now', windows)

\* ----- CF -----
try_CF(hq) ==
    IF ~can_run \/ busy["CF"] >= servers("CF") \/ buf[0] >= bufcap[0]
    THEN /\ h' = hq
         /\ UNCHANGED <<busy, formed>>
    ELSE \E dur \in t_cf :
            /\ busy' = [busy EXCEPT !["CF"] = @ + 1]
            /\ h' = heappush(hq, <<now' + dur, "done_CF", None>>)
            /\ formed' = formed + 1

done_CF(hq) ==
    /\ busy' = [busy EXCEPT !["CF"] = @ - 1]
    /\ buf' = [buf EXCEPT ![0] = @ + 1]
    /\ h' = heappush(heappush(hq, <<now', "try_CF", None>>), <<now', "try_SEP", None>>)

\* ----- SEP -----
\* try_SEP that, when it cannot start, schedules itself again a tick later
try_SEP_blind_retry(hq) ==
    IF \/ ~can_run
       \/ busy["SEP"] >= servers("SEP")
       \/ buf[0] <= 0
       \/ buf[1] >= bufcap[1]
    THEN /\ h' = heappush(hq, <<now' + 1, "try_SEP", None>>)
         /\ UNCHANGED busy
    ELSE \E dur \in t_sep :
            /\ busy' = [busy EXCEPT !["SEP"] = @ + 1]
            /\ h' = heappush(hq, <<now' + dur, "done_SEP", None>>)

try_SEP(hq) ==
    IF \/ ~can_run
       \/ busy["SEP"] >= servers("SEP")
       \/ buf[0] <= 0
       \/ buf[1] >= bufcap[1]
    THEN /\ h' = hq
         /\ UNCHANGED busy
    ELSE \E dur \in t_sep :
            /\ busy' = [busy EXCEPT !["SEP"] = @ + 1]
            /\ h' = heappush(hq, <<now' + dur, "done_SEP", None>>)

\* done_SEP that leaves the unit in its input buffer
done_SEP_keeps_input(hq) ==
    /\ busy' = [busy EXCEPT !["SEP"] = @ - 1]
    /\ buf' = [buf EXCEPT ![1] = @ + 1]
    /\ h' = heappush(heappush(heappush(hq, <<now', "try_SEP", None>>),
                              <<now', "try_CF", None>>),
                     <<now', "try_B1", None>>)

done_SEP(hq) ==
    /\ busy' = [busy EXCEPT !["SEP"] = @ - 1]
    /\ buf' = [buf EXCEPT ![0] = @ - 1, ![1] = @ + 1]
    /\ h' = heappush(heappush(heappush(hq, <<now', "try_SEP", None>>),
                              <<now', "try_CF", None>>),
                     <<now', "try_B1", None>>)

\* ----- Bottlers -----
try_B(k, name, hq) ==
    LET in_idx == 1 + k
        out_idx == 2 + k
    IN  IF \/ ~can_run
           \/ busy[name] >= servers(name)
           \/ buf[in_idx] <= 0
           \/ buf[out_idx] >= bufcap[out_idx]
        THEN /\ h' = hq
             /\ UNCHANGED busy
        ELSE \E dur \in t_b :
                /\ busy' = [busy EXCEPT ![name] = @ + 1]
                /\ h' = heappush(hq, <<now' + dur, done_(name), None>>)

done_B(k, name, hq) ==
    LET in_idx == 1 + k
        out_idx == 2 + k
        prev == <<"SEP", "B1", "B2", "B3">>[k + 1]
        nxt == <<"B2", "B3", "B4", "GLUE">>[k + 1]
    IN  /\ busy' = [busy EXCEPT ![name] = @ - 1]
        /\ buf' = [buf EXCEPT ![in_idx] = @ - 1, ![out_idx] = @ + 1]
        /\ h' = heappush(heappush(heappush(hq, <<now', try_(name), None>>),
                                  <<now', try_(prev), None>>),
                         <<now', try_(nxt), None>>)

\* ----- GLUE -----

\* try_GLUE without its test of the output buffer
try_GLUE_no_output_check(hq) ==
    IF \/ ~can_run
       \/ busy["GLUE"] >= servers("GLUE")
       \/ buf[5] <= 0
    THEN /\ h' = hq
         /\ UNCHANGED busy
    ELSE \E dur \in t_glue :
            /\ busy' = [busy EXCEPT !["GLUE"] = @ + 1]
            /\ h' = heappush(hq, <<now' + dur, "done_GLUE", None>>)

try_GLUE(hq) ==
    IF \/ ~can_run
       \/ busy["GLUE"] >= servers("GLUE")
       \/ buf[5] <= 0
       \/ buf[6] >= bufcap[6]
    THEN /\ h' = hq
         /\ UNCHANGED busy
    ELSE \E dur \in t_glue :
            /\ busy' = [busy EXCEPT !["GLUE"] = @ + 1]
            /\ h' = heappush(hq, <<now' + dur, "done_GLUE", None>>)

\* done_GLUE that does not notify the palletizer
done_GLUE_no_downstream(hq) ==
    /\ busy' = [busy EXCEPT !["GLUE"] = @ - 1]
    /\ buf' = [buf EXCEPT ![5] = @ - 1, ![6] = @ + 1]
    /\ h' = heappush(heappush(hq, <<now', "try_GLUE", None>>), <<now', "try_B4", None>>)

done_GLUE(hq) ==
    /\ busy' = [busy EXCEPT !["GLUE"] = @ - 1]
    /\ buf' = [buf EXCEPT ![5] = @ - 1, ![6] = @ + 1]
    /\ h' = heappush(heappush(heappush(hq, <<now', "try_GLUE", None>>),
                              <<now', "try_B4", None>>),
                     <<now', "try_PAL", None>>)

\* ----- PALLETIZER -----

\* try_PAL without its test of the server pool
try_PAL_no_busy_check(hq) ==
    IF \/ ~can_run
       \/ buf[6] <= 0
    THEN /\ h' = hq
         /\ UNCHANGED busy
    ELSE \E dur \in t_pal :
            /\ busy' = [busy EXCEPT !["PAL"] = @ + 1]
            /\ h' = heappush(hq, <<now' + dur, "done_PAL", None>>)

try_PAL(hq) ==
    IF \/ ~can_run
       \/ busy["PAL"] >= servers("PAL")
       \/ buf[6] <= 0
    THEN /\ h' = hq
         /\ UNCHANGED busy
    ELSE \E dur \in t_pal :
            /\ busy' = [busy EXCEPT !["PAL"] = @ + 1]
            /\ h' = heappush(hq, <<now' + dur, "done_PAL", None>>)

\* done_PAL with the second test of the pallet not under else: a discharged
\* pallet is recorded twice
done_PAL_both_branches(hq) ==
    /\ busy' = [busy EXCEPT !["PAL"] = @ - 1]
    /\ buf' = [buf EXCEPT ![6] = @ - 1]
    /\ cases_out' = cases_out + 1
    /\ IF /\ lock_active
          /\ lock_target_cases # None
          /\ cases_out' >= lock_target_cases[1]
       THEN /\ IF cases_out' % cfg.cases_per_pallet = 0
               THEN /\ pallets' = pallets + 2
                    /\ events' = Append(Append(events, <<pallets + 1, int(now')>>),
                                        <<pallets + 2, int(now')>>)
               ELSE UNCHANGED <<pallets, events>>
            /\ lock_active' = FALSE
            /\ lock_target_cases' = None
       ELSE /\ IF cases_out' % cfg.cases_per_pallet = 0
               THEN /\ pallets' = pallets + 1
                    /\ events' = Append(events, <<pallets', int(now')>>)
               ELSE UNCHANGED <<pallets, events>>
            /\ UNCHANGED <<lock_active, lock_target_cases>>
    /\ h' = heappush(heappush(hq, <<now', "try_PAL", None>>), <<now', "try_GLUE", None>>)

\* the branch of done_PAL that discharges a locked pallet
LockBranch ==
    /\ lock_active
    /\ lock_target_cases # None
    /\ cases_out' >= lock_target_cases[1]

\* done_PAL that releases the lock without recording the locked pallet
done_PAL_drops_locked_pallet(hq) ==
    /\ busy' = [busy EXCEPT !["PAL"] = @ - 1]
    /\ buf' = [buf EXCEPT ![6] = @ - 1]
    /\ cases_out' = cases_out + 1
    /\ IF LockBranch
       THEN /\ UNCHANGED <<pallets, events>>
            /\ lock_active' = FALSE
            /\ lock_target_cases' = None
       ELSE /\ IF cases_out' % cfg.cases_per_pallet = 0
               THEN /\ pallets' = pallets + 1
                    /\ events' = Append(events, <<pallets', int(now')>>)
               ELSE UNCHANGED <<pallets, events>>
            /\ UNCHANGED <<lock_active, lock_target_cases>>
    /\ h' = heappush(heappush(hq, <<now', "try_PAL", None>>), <<now', "try_GLUE", None>>)

done_PAL(hq) ==
    /\ busy' = [busy EXCEPT !["PAL"] = @ - 1]
    /\ buf' = [buf EXCEPT ![6] = @ - 1]
    /\ cases_out' = cases_out + 1
    /\ IF LockBranch
       THEN /\ IF cases_out' % cfg.cases_per_pallet = 0
               THEN /\ pallets' = pallets + 1
                    /\ events' = Append(events, <<pallets', int(now')>>)
               ELSE UNCHANGED <<pallets, events>>
            /\ lock_active' = FALSE
            /\ lock_target_cases' = None
       ELSE /\ IF cases_out' % cfg.cases_per_pallet = 0
               THEN /\ pallets' = pallets + 1
                    /\ events' = Append(events, <<pallets', int(now')>>)
               ELSE UNCHANGED <<pallets, events>>
            /\ UNCHANGED <<lock_active, lock_target_cases>>
    /\ h' = heappush(heappush(hq, <<now', "try_PAL", None>>), <<now', "try_GLUE", None>>)

\* ----- pause logic -----

\* heappush of each event of a list, in the order of the list
RECURSIVE PushAll(_, _)
PushAll(hp, xs) == IF xs = <<>> THEN hp ELSE PushAll(heappush(hp, Head(xs)), Tail(xs))

\* the retiming with the length of the pause taken off instead of added
Retimed_earlier(e, start_t, end_t) ==
    IF e[1] > start_t /\ e[1] < end_t /\ startswith(e[2], "done_")
    THEN <<e[1] - (end_t - start_t), e[2], e[3]>>
    ELSE e

\* the retiming with the bounds of the pause included and every kind of event moved
Retimed_any_event(e, start_t, end_t) ==
    IF e[1] >= start_t /\ e[1] <= end_t
    THEN <<e[1] + (end_t - start_t), e[2], e[3]>>
    ELSE e

\* the retiming left out: every event keeps its time
Retimed_not(e, start_t, end_t) == e

\* what the retiming loop of _mark_incomplete makes of one popped event
Retimed(e, start_t, end_t) ==
    IF e[1] > start_t /\ e[1] < end_t /\ startswith(e[2], "done_")
    THEN <<e[1] + (end_t - start_t), e[2], e[3]>>
    ELSE e

\* _mark_incomplete that locks on the pallet count instead of the next full pallet
_mark_incomplete_low_target(label, start_t, end_t, hq) ==
    LET in_pallet == cases_out % cfg.cases_per_pallet
        current_idx == cases_out \div cfg.cases_per_pallet
        new == [i \in 1..Len(hq) |-> Retimed(hq[i], start_t, end_t)]
    IN  /\ IF in_pallet > 0
           THEN /\ lock_active' = TRUE
                /\ lock_target_cases' = Some(current_idx * cfg.cases_per_pallet)
           ELSE UNCHANGED <<lock_active, lock_target_cases>>
        /\ log' = Append(log, <<label_START(label), int(start_t), Some(in_pallet),
                                Some(cfg.cases_per_pallet)>>)
        /\ h' = PushAll(<<>>, new)

\* the event is a Done due strictly inside the pause
DoneInside(e, start_t, end_t) ==
    e[1] > start_t /\ e[1] < end_t /\ startswith(e[2], "done_")

\* _mark_incomplete that cancels the Done events inside the pause instead of
\* retiming them
_mark_incomplete_cancels(label, start_t, end_t, hq) ==
    LET in_pallet == cases_out % cfg.cases_per_pallet
        current_idx == cases_out \div cfg.cases_per_pallet + 1
        new == SelectSeq(hq, LAMBDA e : ~DoneInside(e, start_t, end_t))
    IN  /\ IF in_pallet > 0
           THEN /\ lock_active' = TRUE
                /\ lock_target_cases' = Some(current_idx * cfg.cases_per_pallet)
           ELSE UNCHANGED <<lock_active, lock_target_cases>>
        /\ log' = Append(log, <<label_START(label), int(start_t), Some(in_pallet),
                                Some(cfg.cases_per_pallet)>>)
        /\ h' = PushAll(<<>>, new)

\* _mark_incomplete that locks the pallet whether or not it is part filled
_mark_incomplete_always_locks(label, start_t, end_t, hq) ==
    LET in_pallet == cases_out % cfg.cases_per_pallet
        current_idx == cases_out \div cfg.cases_per_pallet + 1
        new == [i \in 1..Len(hq) |-> Retimed(hq[i], start_t, end_t)]
    IN  /\ lock_active' = TRUE
        /\ lock_target_cases' = Some(current_idx * cfg.cases_per_pallet)
        /\ log' = Append(log, <<label_START(label), int(start_t), Some(in_pallet),
                                Some(cfg.cases_per_pallet)>>)
        /\ h' = PushAll(<<>>, new)

_mark_incomplete(label, start_t, end_t, hq) ==
    LET in_pallet == cases_out % cfg.cases_per_pallet
        current_idx == cases_out \div cfg.cases_per_pallet + 1
        new == [i \in 1..Len(hq) |-> Retimed(hq[i], start_t, end_t)]
    IN  /\ IF in_pallet > 0
           THEN /\ lock_active' = TRUE
                /\ lock_target_cases' = Some(current_idx * cfg.cases_per_pallet)
           ELSE UNCHANGED <<lock_active, lock_target_cases>>
        /\ log' = Append(log, <<label_START(label), int(start_t), Some(in_pallet),
                                Some(cfg.cases_per_pallet)>>)
        /\ h' = PushAll(<<>>, new)

\* _end_pause that logs the end of the pause and wakes no station
_end_pause_no_wake(label, end_t, hq) ==
    /\ log' = Append(log, <<label_END(label), int(end_t), None, None>>)
    /\ h' = hq

_end_pause(label, end_t, hq) ==
    /\ log' = Append(log, <<label_END(label), int(end_t), None, None>>)
    /\ h' = PushTries(hq, end_t, Names)

-----------------------------------------------------------------------------
(* Sim.run: one action for each kind of event the loop can pop *)

\* while self.h and self.now < self.shift_end
LoopCond == Len(h) > 0 /\ now < shift_end

\* the loop pops an event of type typ and sets the clock
Pop(typ) ==
    /\ pc = "run"
    /\ LoopCond
    /\ Len(h) <= MaxQueue
    /\ HeapTop(h)[2] = typ
    /\ now' = HeapTop(h)[1]
    /\ last' = HeapTop(h)
    /\ UNCHANGED <<cfg, windows, run_start, shift_end, pc>>

Pallet == <<cases_out, pallets, events, lock_active, lock_target_cases>>

run_pause_start ==
    /\ Pop("pause_start")
    /\ LET payload == HeapTop(h)[3]
       IN  _mark_incomplete(payload[1], payload[2], payload[3], HeapRest(h))
    /\ UNCHANGED <<buf, busy, cases_out, pallets, events, formed>>

run_pause_end ==
    /\ Pop("pause_end")
    /\ LET payload == HeapTop(h)[3]
       IN  _end_pause(payload[1], payload[3], HeapRest(h))
    /\ UNCHANGED <<buf, busy, Pallet, formed>>

run_try_CF ==
    /\ Pop("try_CF")
    /\ try_CF(HeapRest(h))
    /\ UNCHANGED <<buf, log, Pallet>>

run_done_CF ==
    /\ Pop("done_CF")
    /\ done_CF(HeapRest(h))
    /\ UNCHANGED <<log, Pallet, formed>>

run_try_SEP ==
    /\ Pop("try_SEP")
    /\ try_SEP(HeapRest(h))
    /\ UNCHANGED <<buf, log, Pallet, formed>>

run_done_SEP ==
    /\ Pop("done_SEP")
    /\ done_SEP(HeapRest(h))
    /\ UNCHANGED <<log, Pallet, formed>>

run_try_B(k) ==
    /\ Pop(try_(Names[k + 3]))
    /\ try_B(k, Names[k + 3], HeapRest(h))
    /\ UNCHANGED <<buf, log, Pallet, formed>>

run_done_B(k) ==
    /\ Pop(done_(Names[k + 3]))
    /\ done_B(k, Names[k + 3], HeapRest(h))
    /\ UNCHANGED <<log, Pallet, formed>>

run_try_GLUE ==
    /\ Pop("try_GLUE")
    /\ try_GLUE(HeapRest(h))
    /\ UNCHANGED <<buf, log, Pallet, formed>>

run_done_GLUE ==
    /\ Pop("done_GLUE")
    /\ done_GLUE(HeapRest(h))
    /\ UNCHANGED <<log, Pallet, formed>>

run_try_PAL ==
    /\ Pop("try_PAL")
    /\ try_PAL(HeapRest(h))
    /\ UNCHANGED <<buf, log, Pallet, formed>>

run_done_PAL ==
    /\ Pop("done_PAL")
    /\ done_PAL(HeapRest(h))
    /\ UNCHANGED <<log, formed>>

\* the loop condition fails and run() returns its result
run_return ==
    /\ pc = "run"
    /\ ~LoopCond
    /\ pc' = "done"
    /\ UNCHANGED <<cfg, windows, run_start, shift_end, now, buf, busy, h, Pallet,
                   log, last, formed>>

Next ==
    \/ run_pause_start
    \/ run_pause_end
    \/ run_try_CF
    \/ run_done_CF
    \/ run_try_SEP
    \/ run_done_SEP
    \/ \E k \in 0..3 : run_try_B(k)
    \/ \E k \in 0..3 : run_done_B(k)
    \/ run_try_GLUE
    \/ run_done_GLUE
    \/ run_try_PAL
    \/ run_done_PAL
    \/ run_return

Spec == Init /\ [][Next]_vars

-----------------------------------------------------------------------------
(* Properties *)

DoneLabels == {done_(n) : n \in Stations}

\* the step is one pass of the loop of run(): it pops the head of the heap
Handled ==
    /\ pc = "run"
    /\ LoopCond
    /\ vars' # vars
    /\ last' = Head(h)

HandledTyp(typ) == Handled /\ Head(h)[2] = typ

RECURSIVE SumBuf(_)
SumBuf(i) == IF i < 0 THEN 0 ELSE buf[i] + SumBuf(i - 1)

RECURSIVE SumBusy(_)
SumBusy(i) == IF i = 0 THEN 0 ELSE busy[Names[i]] + SumBusy(i - 1)

\* C1 Buffer bound: in every reachable state every link buffer i satisfies
\* 0 <= buf[i] <= bufcap[i].
C1_BufferBound == \A i \in Links : 0 <= buf[i] /\ buf[i] <= bufcap[i]

\* Glue/Date has a unit waiting and a free server, and is held back by its full
\* output buffer
C1_Witness ==
    /\ last # None
    /\ last[2] = "try_GLUE"
    /\ busy["GLUE"] = 0
    /\ buf[5] > 0
    /\ buf[6] = bufcap[6]
    /\ in_window(now, windows)

\* C2 Server bound: in every reachable state every station satisfies
\* 0 <= busy <= servers, also after a PauseStart has retimed its Done events.
C2_ServerBound == \A s \in Stations : 0 <= busy[s] /\ busy[s] <= servers(s)

\* a PauseStart has just retimed the Done of the busy palletizer
C2_Witness ==
    /\ last # None
    /\ last[2] = "pause_start"
    /\ busy["PAL"] = servers("PAL")
    /\ \E i \in 1..Len(h) : h[i][2] = "done_PAL" /\ h[i][1] > last[3][3]

\* C3 Conservation, as the spec states it: casesOut <= totalUnitsFormed and
\* totalUnitsFormed - casesOut = sum of the buffer levels + sum of the busy counts.
C3_Conservation_AsStated ==
    /\ cases_out <= formed
    /\ formed - cases_out = SumBuf(6) + SumBusy(Len(Names))

\* C3 Conservation, as the code keeps it: a unit stays in the input buffer of the
\* station working on it, so casesOut <= totalUnitsFormed and
\* totalUnitsFormed - casesOut = sum of the buffer levels + busy of CaseFormer.
C3_Conservation == 
    /\ cases_out <= formed
    /\ formed - cases_out = SumBuf(6) + busy["CF"]

\* the run has returned with cases out, units in the buffers and stations at work
C3_Witness ==
    /\ pc = "done"
    /\ cases_out > 0
    /\ formed > cases_out
    /\ busy["CF"] = 1
    /\ \E s \in Stations \ {"CF"} : busy[s] = 1

\* the pause log holds the start of a pause that found a pallet part filled
StartedInPallet(i) == log[i][3] # None /\ log[i][3][1] > 0

\* C4 Single-completion rule: a processed done_PAL appends at most one
\* CompletionRecord, also when casesOut is at once a multiple of palletSize and
\* equal to lockTargetCases, and no other event appends any.
C4_SingleCompletion ==
    [][/\ Len(events') >= Len(events)
       /\ Len(events') <= Len(events) + 1
       /\ SubSeq(events', 1, Len(events)) = events
       /\ (events' # events => HandledTyp("done_PAL"))]_vars

\* the done_PAL that fills the first pallet also reaches the target of the lock
\* a pause has set: one record
C4_Witness ==
    /\ last # None
    /\ last[2] = "done_PAL"
    /\ cases_out = cfg.cases_per_pallet
    /\ ~lock_active
    /\ Len(events) = 1
    /\ \E i \in 1..Len(log) : StartedInPallet(i)

\* C5 Deferred-batch discharge: a PauseStart processed with casesOut mod
\* palletSize > 0 locks the next multiple of palletSize; while the lock is active
\* no CompletionRecord is appended until the done_PAL that raises casesOut to
\* lockTargetCases; that done_PAL appends exactly one record with its own time,
\* adds one to the pallet counter and clears lockActive and lockTargetCases.
C5_DeferredDischarge ==
    [][/\ (HandledTyp("pause_start") /\ cases_out % cfg.cases_per_pallet > 0
             => /\ lock_active'
                /\ lock_target_cases' =
                     Some((cases_out \div cfg.cases_per_pallet + 1) * cfg.cases_per_pallet)
                /\ cases_out < lock_target_cases'[1]
                /\ events' = events)
       /\ (lock_active /\ ~(HandledTyp("done_PAL") /\ cases_out' = lock_target_cases[1])
             => /\ events' = events
                /\ pallets' = pallets
                /\ lock_active'
                /\ cases_out' < lock_target_cases'[1])
       /\ (lock_active /\ HandledTyp("done_PAL") /\ cases_out' = lock_target_cases[1]
             => /\ events' = Append(events, <<pallets + 1, int(Head(h)[1])>>)
                /\ pallets' = pallets + 1
                /\ ~lock_active'
                /\ lock_target_cases' = None)]_vars

\* the locked pallet has been discharged by a done_PAL later than the pause start
C5_Witness ==
    /\ last # None
    /\ last[2] = "done_PAL"
    /\ pallets = 1
    /\ cases_out = cfg.cases_per_pallet
    /\ ~lock_active
    /\ lock_target_cases = None
    /\ \E i \in 1..Len(log) : StartedInPallet(i) /\ events[1][2] > log[i][2]

\* the events of a heap with their multiplicities
BagOf(q) ==
    [x \in {q[i] : i \in 1..Len(q)} |-> Cardinality({i \in 1..Len(q) : q[i] = x})]

\* what C6 says PauseStart(ps, pe) makes of a queued event
C6_Shifted(x, ps, pe) ==
    IF x[2] \in DoneLabels /\ ps < x[1] /\ x[1] < pe
    THEN <<x[1] + (pe - ps), x[2], x[3]>>
    ELSE x

\* C6 Pause retiming: PauseStart(ps, pe) adds pe - ps to the time of every queued
\* Done with ps < t < pe and leaves every other queued event as it is; no event
\* is removed, duplicated or moved earlier.
C6_PauseRetiming ==
    [][HandledTyp("pause_start")
         => LET ps == Head(h)[3][2]
                pe == Head(h)[3][3]
                rest == Tail(h)
            IN  /\ Len(h') = Len(rest)
                /\ BagOf(h') = BagOf([i \in 1..Len(rest) |-> C6_Shifted(rest[i], ps, pe)])]_vars

\* a PauseStart has moved a Done past the end of its pause and has left the end
\* of another pause, due inside the interval, where it was
C6_Witness ==
    /\ last # None
    /\ last[2] = "pause_start"
    /\ \E i \in 1..Len(h) :
          /\ h[i][2] \in DoneLabels
          /\ h[i][1] > last[3][3]
          /\ h[i][1] < last[3][3] + (last[3][3] - last[3][2])
    /\ \E i \in 1..Len(h) :
          /\ h[i][2] = "pause_end"
          /\ h[i][1] > last[3][2]
          /\ h[i][1] < last[3][3]

\* C7 Hard cutoff: no event whose timestamp is >= shiftEnd is ever executed by
\* the run loop (so casesOut counts only the done_PAL before shiftEnd).
C7_HardCutoff == last # None => last[1] < shift_end

\* the place of an event kind in the order C8 names
KindRank(typ) ==
    IF typ \in DoneLabels THEN 0
    ELSE IF typ = "pause_end" THEN 1
    ELSE IF typ = "pause_start" THEN 2
    ELSE 3

\* C8 Deterministic tie-break: of the queued events of one time, the loop takes
\* one whose label is least in lexicographic order (every done_* before
\* pause_end, before pause_start, before every try_*), wherever in the order of
\* insertion it stands.
C8_TieBreak ==
    [][Handled
         => \A i \in 2..Len(h) :
               h[i][1] = Head(h)[1]
                 => /\ KindRank(Head(h)[2]) <= KindRank(h[i][2])
                    /\ ~StrLess(h[i][2], Head(h)[2])]_vars

\* done_SEP has pushed try_SEP, try_CF and try_B1 in that order, and try_B1 is
\* the next to leave, ahead of the two pushed before it
C8_Witness ==
    /\ last # None
    /\ last[2] = "done_SEP"
    /\ Len(h) >= 3
    /\ Head(h) = <<now, "try_B1", None>>
    /\ \E i \in 2..Len(h) : h[i] = <<now, "try_CF", None>>
    /\ \E i \in 2..Len(h) : h[i] = <<now, "try_SEP", None>>

\* C9 Clock monotonicity: of two events the loop processes one after the other,
\* the second has a time >= that of the first, whatever the durations and pauses.
C9_ClockMonotonic == [][Handled /\ last # None => last[1] <= last'[1]]_vars

\* a Done is processed after a break and a downtime that start together have
\* both retimed the queue
C9_Witness ==
    /\ last # None
    /\ last[2] \in DoneLabels
    /\ Len(log) >= 2
    /\ log[1][1] = "BREAK_START"
    /\ log[2][1] = "DOWNTIME_START"
    /\ log[1][2] = log[2][2]
    /\ last[1] > to_sec(cfg.breaks[1][3], cfg.breaks[1][4])

\* the number of stations in series
Stages == Len(Names)

\* Scenario A: no pause, no jitter, every duration one second, buffers that
\* never block (no level passes 2 there)
ScenarioA ==
    /\ cfg.breaks = <<>>
    /\ cfg.downtimes = <<>>
    /\ cfg.jitter_pct = 0
    /\ cfg.t_caseformer = TicksPerSec
    /\ cfg.t_separator = TicksPerSec
    /\ cfg.bottler_range = <<TicksPerSec, TicksPerSec>>
    /\ cfg.t_glue = TicksPerSec
    /\ cfg.palletizer_dist = "uniform"
    /\ cfg.palletizer_params = <<TicksPerSec, TicksPerSec>>
    /\ \A i \in Links : cfg.buffers[i] > 2

\* every event with a time <= run_start + T seconds has been processed, and none
\* later
AllProcessedAt(T) ==
    /\ last # None
    /\ last[1] <= run_start + T * TicksPerSec
    /\ (h = <<>> \/ Head(h)[1] > run_start + T * TicksPerSec)

\* the end of the last production window
run_end == windows[Len(windows)][2]

\* C10 Scenario A, as the claim states it: casesOut = T - (stages - 1) for every
\* T >= stages - 1 before the cutoff at shiftEnd.
C10_ScenarioA_AsStated ==
    ScenarioA
      => \A T \in (Stages - 1)..int(shift_end - run_start) :
            AllProcessedAt(T) /\ run_start + T * TicksPerSec < shift_end
              => cases_out = T - (Stages - 1)

\* C10 Scenario A, as the code runs it: casesOut = T - (stages - 1) for every T
\* with stages - 1 <= T <= runEnd - runStart, the end of the production window
\* (clean_last_min before shiftEnd); after it no station starts a unit.
C10_ScenarioA ==
    ScenarioA
      => \A T \in (Stages - 1)..int(shift_end - run_start) :
            AllProcessedAt(T) /\ run_start + T * TicksPerSec <= run_end
              => cases_out = T - (Stages - 1)

\* twenty seconds into Scenario A thirteen cases are out
C10_Witness ==
    /\ ScenarioA
    /\ AllProcessedAt(20)
    /\ cases_out = 20 - (Stages - 1)
    /\ cases_out > 0

\* an interval (h1, m1, h2, m2) whose end comes before its start
Inverted(k) == to_sec(k[3], k[4]) < to_sec(k[1], k[2])

\* the configurations the specification calls a ConfigError
InvalidConfig(c) ==
    \/ \E i \in Links : c.buffers[i] <= 0
    \/ c.cases_per_pallet <= 0
    \/ \E i \in 1..Len(c.breaks) : Inverted(c.breaks[i])
    \/ \E i \in 1..Len(c.downtimes) : Inverted(c.downtimes[i])
    \/ to_sec(c.end_hm[1], c.end_hm[2]) - c.clean_last_min * 60 * TicksPerSec
         <= windows_from_shift(c)[2]

\* C11 ConfigError: a configuration with a non-positive buffer capacity or pallet
\* size, an inverted break or downtime, or runEnd <= runStart is rejected before
\* any event is processed: no handler runs and no counter changes.
C11_ConfigError ==
    InvalidConfig(cfg)
      => /\ last = None
         /\ log = <<>>
         /\ formed = 0
         /\ cases_out = 0
         /\ pallets = 0
         /\ \A s \in Stations : busy[s] = 0

-----------------------------------------------------------------------------
(* The production calendar: windows_from_shift and in_window on their own *)

\* breaks start and end on one of the minutes of a shift of three minutes
Minutes == 0..3

\* a configuration lists at most MaxBreaks breaks
MaxBreaks == 2

Spans == {Span(m1, m2) : m1, m2 \in Minutes}

BreakLists == UNION {[1..n -> Spans] : n \in 0..MaxBreaks}

\* shifts of three minutes without and with a minute of preparation and of
\* cleaning, every list of breaks, without and with a downtime
CalConfigs ==
    {Line(prep, 3, prep, brk, down, 2, TightBuffers) :
        prep \in 0..1, brk \in BreakLists, down \in {<<>>, <<Span(1, 2)>>}}

\* the times in_window is asked about are half a minute apart
HalfMinute == 30 * TicksPerSec

\* Sim(cfg) is constructed; the clock stands at the start of the day
CalInit ==
    /\ cfg \in CalConfigs
    /\ windows = windows_from_shift(cfg)[1]
    /\ run_start = windows_from_shift(cfg)[2]
    /\ shift_end = windows_from_shift(cfg)[3]
    /\ now = to_sec(cfg.start_hm[1], cfg.start_hm[2])
    /\ buf = [i \in Links |-> 0]
    /\ busy = [s \in Stations |-> 0]
    /\ h = PushPauses(PushPauses(PushTries(<<>>, windows_from_shift(cfg)[2], Names),
                                 "BREAK", cfg.breaks),
                      "DOWNTIME", cfg.downtimes)
    /\ cases_out = 0
    /\ pallets = 0
    /\ events = <<>>
    /\ log = <<>>
    /\ lock_active = FALSE
    /\ lock_target_cases = None
    /\ pc = "calendar"
    /\ last = None
    /\ formed = 0

\* the time in_window is asked about moves on, up to half a minute past the shift
cal_tick ==
    /\ pc = "calendar"
    /\ now <= shift_end
    /\ now' = now + HalfMinute
    /\ UNCHANGED <<cfg, windows, run_start, shift_end, buf, busy, h, Pallet, log, pc,
                   last, formed>>

CalSpec == CalInit /\ [][cal_tick]_vars

\* the break k = (h1, m1, h2, m2) is well formed, and it contains the time t
StartBeforeEnd(k) == to_sec(k[1], k[2]) <= to_sec(k[3], k[4])

InBreak(t, k) == to_sec(k[1], k[2]) <= t /\ t < to_sec(k[3], k[4])

\* run_end of windows_from_shift
RunEnd(c) == to_sec(c.end_hm[1], c.end_hm[2]) - c.clean_last_min * 60 * TicksPerSec

\* C12 Production calendar: when every break has start <= end, in_window(t) over
\* the windows of windows_from_shift is true iff runStart <= t < runEnd and no
\* break [bs, be) contains t; the windows are ordered and pairwise disjoint; and
\* the downtimes have no effect on the windows.
C12_Calendar ==
    (\A i \in 1..Len(cfg.breaks) : StartBeforeEnd(cfg.breaks[i]))
      => /\ in_window(now, windows)
              <=> /\ run_start <= now
                  /\ now < RunEnd(cfg)
                  /\ \A i \in 1..Len(cfg.breaks) : ~InBreak(now, cfg.breaks[i])
         /\ \A i \in 1..Len(windows) - 1 : windows[i][2] <= windows[i + 1][1]
         /\ \A i, j \in 1..Len(windows) :
               i # j => ~\E t \in 0..(shift_end \div HalfMinute) :
                            /\ windows[i][1] <= t * HalfMinute
                            /\ t * HalfMinute < windows[i][2]
                            /\ windows[j][1] <= t * HalfMinute
                            /\ t * HalfMinute < windows[j][2]
         /\ windows = windows_from_shift([cfg EXCEPT !.downtimes = <<>>])[1]

\* two breaks leave three windows, a downtime is configured, and the time asked
\* about is the end of a break, where the line is open again
C12_Witness ==
    /\ pc = "calendar"
    /\ Len(cfg.breaks) = 2
    /\ \A i \in 1..2 : StartBeforeEnd(cfg.breaks[i])
    /\ Len(windows) = 3
    /\ cfg.downtimes # <<>>
    /\ \E i \in 1..2 : now = to_sec(cfg.breaks[i][3], cfg.breaks[i][4])
    /\ in_window(now, windows)

-----------------------------------------------------------------------------

\* a start guard of the i-th station fails at time t: the window is closed, no
\* server is free, the input buffer is empty (not for the first station) or the
\* output buffer is full (not for the last)
GuardFails(i, t) ==
    \/ ~in_window(t, windows)
    \/ busy[Names[i]] >= servers(Names[i])
    \/ i > 1 /\ buf[i - 2] <= 0
    \/ i < Len(Names) /\ buf[i - 1] >= bufcap[i - 1]

\* C13 Failed tryStart is a no-op: when a Try is processed for a station and one
\* of its guards fails, the buffers, the busy counters, casesOut, the pallet and
\* lock state and the logs are unchanged and the queue only loses the popped Try:
\* no Try or Done is scheduled.
C13_FailedTryNoOp ==
    [][\A i \in 1..Len(Names) :
          HandledTyp(try_(Names[i])) /\ GuardFails(i, Head(h)[1])
            => /\ buf' = buf
               /\ busy' = busy
               /\ Pallet' = Pallet
               /\ log' = log
               /\ formed' = formed
               /\ h' = Tail(h)]_vars

\* the last bottler has a case waiting and a free server in an open window and
\* its Try has just failed on the full output buffer
C13_Witness ==
    /\ last # None
    /\ last[2] = "try_B4"
    /\ in_window(now, windows)
    /\ busy["B4"] = 0
    /\ buf[4] > 0
    /\ buf[5] >= bufcap[5]

-----------------------------------------------------------------------------

\* ceil(a / b) for a >= 0 and b > 0
Ceil(a, b) == (a + b - 1) \div b

StartLabels == {"BREAK_START", "DOWNTIME_START"}

\* C14 Pallet lock rule at PauseStart: after a PauseStart is processed, if
\* casesOut mod palletSize > 0 the lock is active with target
\* ceil(casesOut / palletSize) * palletSize, the smallest multiple of palletSize
\* greater than casesOut, the same target as that of a lock already active; if
\* casesOut mod palletSize = 0 the lock and its target are unchanged. In both
\* cases exactly one start-of-pause record with inPallet is appended to the log.
C14_LockAtPauseStart ==
    [][HandledTyp("pause_start")
         => LET cpp == cfg.cases_per_pallet
                in_pallet == cases_out % cpp
                target == Ceil(cases_out, cpp) * cpp
            IN  /\ cases_out' = cases_out
                /\ in_pallet > 0
                     => /\ lock_active' = TRUE
                        /\ lock_target_cases' = Some(target)
                        /\ target % cpp = 0
                        /\ target > cases_out
                        /\ target - cpp <= cases_out
                        /\ lock_active => lock_target_cases' = lock_target_cases
                /\ in_pallet = 0
                     => /\ lock_active' = lock_active
                        /\ lock_target_cases' = lock_target_cases
                /\ Len(log') = Len(log) + 1
                /\ SubSeq(log', 1, Len(log)) = log
                /\ log'[Len(log')][1] \in StartLabels
                /\ log'[Len(log')][3] = Some(in_pallet)]_vars

\* a second PauseStart has found the part-filled pallet already locked by the
\* first and has logged the same progress
C14_Witness ==
    /\ last # None
    /\ last[2] = "pause_start"
    /\ lock_active
    /\ lock_target_cases = Some(cfg.cases_per_pallet)
    /\ Len(log) >= 2
    /\ log[Len(log)][1] \in StartLabels
    /\ log[Len(log) - 1][1] \in StartLabels
    /\ log[Len(log)][3] = log[Len(log) - 1][3]
    /\ log[Len(log)][3] # Some(0)

-----------------------------------------------------------------------------

\* the payloads (label, start, end) of the configured pauses
Pauses ==
    {<<"BREAK", to_sec(k[1], k[2]), to_sec(k[3], k[4])>> :
        k \in {cfg.breaks[i] : i \in 1..Len(cfg.breaks)}}
    \cup {<<"DOWNTIME", to_sec(k[1], k[2]), to_sec(k[3], k[4])>> :
             k \in {cfg.downtimes[i] : i \in 1..Len(cfg.downtimes)}}

\* the event of this type and payload is still waiting in the queue
InQueue(typ, payload) == \E i \in 1..Len(h) : h[i][2] = typ /\ h[i][3] = payload

\* the indices of the log records of the start and of the end of the pause p
StartRecords(p) ==
    {i \in 1..Len(log) : log[i][1] = label_START(p[1]) /\ log[i][2] = int(p[2])}

EndRecords(p) ==
    {i \in 1..Len(log) : log[i][1] = label_END(p[1]) /\ log[i][2] = int(p[3])}

\* C15 Pause lifecycle order: for every configured pause with start <= end, a
\* zero-length pause included, the run processes its PauseStart before its
\* PauseEnd, each at most once, and its START record precedes its END record in
\* the pause log.
C15_PauseLifecycle ==
    \A p \in Pauses :
        p[2] <= p[3]
          => /\ ~InQueue("pause_end", p) => ~InQueue("pause_start", p)
             /\ Cardinality(StartRecords(p)) <= 1
             /\ Cardinality(EndRecords(p)) <= 1
             /\ \A j \in EndRecords(p) : \E i \in StartRecords(p) : i < j

-----------------------------------------------------------------------------

\* runs with durations of zero and runs with positive durations and a break
TerminationInit == Init /\ cfg \in {ZeroCfg, BreakCfg}

\* the interpreter keeps executing run(): while the loop can take a pass or
\* return, it does
FairSpec == TerminationInit /\ [][Next]_vars /\ WF_vars(Next)

-----------------------------------------------------------------------------

\* every duration a station can draw is strictly positive
PositiveDurations == \A d \in t_cf \cup t_sep \cup t_b \cup t_glue \cup t_pal : d > 0

\* every queued event with the time of the clock has been processed
Quiet == last # None /\ (h = <<>> \/ Head(h)[1] > now)

\* C17 No lost wake-up: whenever all events sharing a timestamp t have been
\* processed (the next queued event is later or the queue is empty) and t is
\* before the cutoff, no station has all its start guards true at t: a station
\* able to start is never left dormant without a pending Try, given strictly
\* positive durations.
C17_NoLostWakeUp ==
    PositiveDurations /\ Quiet /\ now < shift_end
      => \A i \in 1..Len(Names) : GuardFails(i, now)

\* the break is over and every event of that time is processed: the Case Former,
\* woken by the PauseEnd, has started a case in the window that opened
C17_Witness ==
    /\ PositiveDurations
    /\ Quiet
    /\ now < shift_end
    /\ in_window(now, windows)
    /\ Len(cfg.breaks) = 1
    /\ now = to_sec(cfg.breaks[1][3], cfg.breaks[1][4])
    /\ \E i \in 1..Len(log) : log[i][1] = "BREAK_END"
    /\ busy["CF"] = 1
    /\ \E i \in 1..Len(h) : h[i] = <<now + cfg.t_caseformer, "done_CF", None>>

-----------------------------------------------------------------------------

\* the number of Done events of the station s in the queue
PendingDone(s) == Cardinality({i \in 1..Len(h) : h[i][2] = done_(s)})

\* C18 In-flight work bookkeeping: in every state between event handlers, the
\* busy counter of each station equals the number of Done events of that station
\* in the event queue, also after a PauseStart has retimed the queue and a
\* PauseEnd has woken the stations.
C18_InFlight == \A s \in Stations : busy[s] = PendingDone(s)

\* a downtime is over: its PauseEnd has just woken the stations, and the Done of
\* a busy station waits where the PauseStart moved it, past the end of the pause
C18_Witness ==
    /\ last # None
    /\ last[2] = "pause_end"
    /\ last[3][1] = "DOWNTIME"
    /\ last[3][2] < last[3][3]
    /\ \E s \in Stations :
          /\ busy[s] = 1
          /\ \E i \in 1..Len(h) : h[i][2] = done_(s) /\ h[i][1] > last[3][3]
          /\ \E i \in 1..Len(h) : h[i] = <<now, try_(s), None>>

-----------------------------------------------------------------------------

\* C19 Pallet count invariant: in every reachable state palletsOut =
\* floor(casesOut / palletSize), the completions list has exactly palletsOut
\* records, their sequence numbers are 1, 2, ..., palletsOut in list order and
\* their timestamps never decrease, whatever pauses and locks occurred.
C19_PalletCount ==
    /\ pallets = cases_out \div cfg.cases_per_pallet
    /\ Len(events) = pallets
    /\ \A i \in 1..Len(events) : events[i][1] = i
    /\ \A i \in 1..Len(events) - 1 : events[i][2] <= events[i + 1][2]

\* two pauses have started inside the same part-filled pallet, and the lock is
\* released: that pallet has been discharged after them
C19_Witness ==
    /\ pallets >= 1
    /\ ~lock_active
    /\ \E i, j \in 1..Len(log) :
          /\ i < j
          /\ log[i][1] \in StartLabels
          /\ log[j][1] \in StartLabels
          /\ log[i][3] = log[j][3]
          /\ log[i][3] # Some(0)
          /\ log[j][2] < events[pallets][2]

-----------------------------------------------------------------------------

TryLabels == {try_(n) : n \in Stations}

\* C20 No completion inside a Break: for every Break [bs, be), whatever breaks
\* and downtimes are combined, no Done is processed at a time t with
\* bs < t < be and no tryStart succeeds at a time t with bs <= t < be.
C20_NoCompletionInBreak ==
    [][\A i \in 1..Len(cfg.breaks) :
          LET bs == to_sec(cfg.breaks[i][1], cfg.breaks[i][2])
              be == to_sec(cfg.breaks[i][3], cfg.breaks[i][4])
          IN  /\ Handled /\ Head(h)[2] \in DoneLabels
                   => ~(bs < Head(h)[1] /\ Head(h)[1] < be)
              /\ Handled /\ Head(h)[2] \in TryLabels /\ busy' # busy
                   => ~(bs <= Head(h)[1] /\ Head(h)[1] < be)]_vars

\* by contrast a Downtime does not prevent a start: the Case Former has just
\* started a case strictly inside a downtime that has begun, and a break has
\* still to come
C20_Witness ==
    /\ last # None
    /\ last[2] = "try_CF"
    /\ busy["CF"] = 1
    /\ \E i \in 1..Len(h) : h[i] = <<now + cfg.t_caseformer, "done_CF", None>>
    /\ cfg.t_caseformer > 0
    /\ \E i \in 1..Len(cfg.downtimes) :
          /\ to_sec(cfg.downtimes[i][1], cfg.downtimes[i][2]) < now
          /\ now < to_sec(cfg.downtimes[i][3], cfg.downtimes[i][4])
    /\ \E i \in 1..Len(log) : log[i][1] = "DOWNTIME_START"
    /\ \E i \in 1..Len(h) : h[i][2] = "pause_start" /\ h[i][3][1] = "BREAK"

====
